---------------------------- MODULE Spec2Model ----------------------------
(***************************************************************************)
(* Shape-level model of model/pyconvsegnet.py: the construction of the     *)
(* PyConv modules and the control flow and tensor shapes of their forward  *)
(* passes.  A tensor is its shape (channels, height, width); the batch     *)
(* axis and the numeric values are not modelled.  One module object is     *)
(* built and then called, as in the script at the end of the file.         *)
(***************************************************************************)
EXTENDS Integers, Sequences, FiniteSets

VARIABLES
    kind,     \* class of the module under construction / constructed
    cfg,      \* the constructor's arguments
    ctor,     \* outcome of the constructor and what it created before ending
    attrs,    \* nn.Module attributes of the instance: training, merge_with_stages
    fwd       \* the most recent forward call: inputs, executed steps, result

vars == <<kind, cfg, ctor, attrs, fwd>>

----------------------------------------------------------------------------
(* Bounds of the model *)

MaxLevels == 2        \* longest pyramid configuration list given to PyConv2d
MaxSide   == 3        \* largest height/width of a feature tensor
MaxPlanes == 66       \* largest `planes` given to PyConv4
MaxDim    == 17       \* largest height/width of an image given to PyConvSegNet

----------------------------------------------------------------------------
(* Tensors and the torch primitives the file calls *)

Tensor(c, h, w) == [ok |-> TRUE, c |-> c, h |-> h, w |-> w]

\* the value of an expression whose evaluation raised
Bad == [ok |-> FALSE, c |-> 0, h |-> 0, w |-> 0]

SameSpatial(a, b) == a.h = b.h /\ a.w = b.w

\* nn.Conv2d(...) raises ValueError unless both channel counts are divisible by groups
Conv2dCtorOk(cin, cout, g) == g > 0 /\ cin % g = 0 /\ cout % g = 0

\* output extent of a convolution along one axis
ConvDim(n, k, s, p, d) == (n + 2 * p - d * (k - 1) - 1) \div s + 1

\* applying a Conv2d: raises on a channel mismatch or when the padded input is
\* smaller than the (dilated) kernel
Conv2dApply(x, cin, cout, k, s, p, d) ==
    IF ~x.ok \/ x.c # cin \/ x.h + 2 * p < d * (k - 1) + 1 \/ x.w + 2 * p < d * (k - 1) + 1
    THEN Bad
    ELSE Tensor(cout, ConvDim(x.h, k, s, p, d), ConvDim(x.w, k, s, p, d))

\* BatchNorm(n), ReLU: shape-preserving; BatchNorm raises on another channel count
\* (its training-mode demand for more than one value per channel depends on the
\* batch size, which is not modelled)
BatchNormApply(x, n) == IF ~x.ok \/ x.c # n THEN Bad ELSE x

RECURSIVE SumChannels(_, _)
SumChannels(ts, i) == IF i > Len(ts) THEN 0 ELSE ts[i].c + SumChannels(ts, i + 1)

\* torch.cat(ts, 1): raises on an empty list and on differing spatial sizes
Cat(ts) ==
    IF Len(ts) = 0 \/ (\E i \in 1..Len(ts) : ~ts[i].ok)
       \/ (\E i \in 1..Len(ts) : ~SameSpatial(ts[i], ts[1]))
    THEN Bad
    ELSE Tensor(SumChannels(ts, 1), ts[1].h, ts[1].w)

\* F.interpolate(x, size=(h, w), mode='bilinear', align_corners=True)
Interpolate(x, h, w) == IF ~x.ok THEN Bad ELSE Tensor(x.c, h, w)

\* nn.AdaptiveAvgPool2d(bins)
AdaptiveAvgPool(x, bins) == IF ~x.ok THEN Bad ELSE Tensor(x.c, bins, bins)

----------------------------------------------------------------------------
(* PyConv2d *)

\* line 39: assert len(out_channels) == len(pyconv_kernels) == len(pyconv_groups)
LengthsAgreeOnlyKernels(c) == Len(c.out_channels) = Len(c.pyconv_kernels)

LengthsAgree(c) ==
    Len(c.out_channels) = Len(c.pyconv_kernels) /\ Len(c.pyconv_kernels) = Len(c.pyconv_groups)

\* lines 41-45: the loop creating one nn.Conv2d per kernel; `created` counts
\* the levels made before the loop ended
RECURSIVE CreateLevels(_, _)
CreateLevels(c, i) ==
    IF i > Len(c.pyconv_kernels) THEN [outcome |-> "ok", created |-> i - 1]
    ELSE IF i > Len(c.out_channels) \/ i > Len(c.pyconv_groups)
         THEN [outcome |-> "IndexError", created |-> i - 1]
    ELSE IF ~Conv2dCtorOk(c.in_channels, c.out_channels[i], c.pyconv_groups[i])
         THEN [outcome |-> "ValueError", created |-> i - 1]
    ELSE CreateLevels(c, i + 1)

PyConv2dInit(c) ==
    IF ~LengthsAgree(c) THEN [outcome |-> "AssertionError", created |-> 0]
    ELSE CreateLevels(c, 1)

\* line 44: padding=pyconv_kernels[i] // 2
PaddingFixed(k) == 1

Padding(k) == k \div 2

\* lines 49-51: out.append(level(x))
LevelOutputs(c, x) ==
    [i \in 1..Len(c.pyconv_kernels) |->
        Conv2dApply(x, c.in_channels, c.out_channels[i], c.pyconv_kernels[i],
                    c.stride, Padding(c.pyconv_kernels[i]), c.dilation)]

\* line 53
PyConv2dForward(c, x) == Cat(LevelOutputs(c, x))

----------------------------------------------------------------------------
(* PyConv4 *)

\* lines 61-68: four nn.Conv2d(inplans, planes // 4, ...) made in order
PyConv4Init(inplans, planes, groups) ==
    LET bad == {i \in 1..4 : ~Conv2dCtorOk(inplans, planes \div 4, groups[i])}
    IN  IF bad = {} THEN [outcome |-> "ok", created |-> 4]
        ELSE [outcome |-> "ValueError",
              created |-> (CHOOSE i \in bad : \A j \in bad : i <= j) - 1]

\* lines 62, 64, 66, 68: padding=pyconv_kernels[i] // 2
Padding4(k) == k \div 2

Conv2_Outputs(inplans, planes, kernels, stride, x) ==
    [i \in 1..4 |->
        Conv2dApply(x, inplans, planes \div 4, kernels[i], stride, Padding4(kernels[i]), 1)]

\* line 71
PyConv4Forward(inplans, planes, kernels, stride, x) ==
    Cat(Conv2_Outputs(inplans, planes, kernels, stride, x))

DefaultKernels == <<3, 5, 7, 9>>
DefaultGroups  == <<1, 4, 8, 16>>

----------------------------------------------------------------------------
(* GlobalPyConvBlock, LocalPyConvBlock, MergeLocalGlobal, PyConvHead *)

\* lines 77-88: the Sequential's members are built in order; only PyConv4 can raise
GlobalPyConvBlockInit(in_dim, reduction_dim) ==
    PyConv4Init(reduction_dim, reduction_dim, DefaultGroups)

\* lines 77-88: self.features
GlobalFeatures(in_dim, reduction_dim, bins, x) ==
    LET p  == AdaptiveAvgPool(x, bins)
        a  == BatchNormApply(Conv2dApply(p, in_dim, reduction_dim, 1, 1, 0, 1), reduction_dim)
        b  == BatchNormApply(PyConv4Forward(reduction_dim, reduction_dim, DefaultKernels, 1, a),
                             reduction_dim)
    IN  BatchNormApply(Conv2dApply(b, reduction_dim, reduction_dim, 1, 1, 0, 1), reduction_dim)

\* lines 90-93
GlobalForwardNoResize(in_dim, reduction_dim, bins, x) ==
    GlobalFeatures(in_dim, reduction_dim, bins, x)

GlobalPyConvBlockForward(in_dim, reduction_dim, bins, x) ==
    Interpolate(GlobalFeatures(in_dim, reduction_dim, bins, x), x.h, x.w)

\* lines 99-110
LocalPyConvBlockInit(inplanes, planes, reduction1) ==
    PyConv4Init(inplanes \div reduction1, inplanes \div reduction1, DefaultGroups)

\* lines 112-113
LocalPyConvBlockForward(inplanes, planes, reduction1, x) ==
    LET r == inplanes \div reduction1
        a == BatchNormApply(Conv2dApply(x, inplanes, r, 1, 1, 0, 1), r)
        b == BatchNormApply(PyConv4Forward(r, r, DefaultKernels, 1, a), r)
    IN  BatchNormApply(Conv2dApply(b, r, planes, 1, 1, 0, 1), planes)

\* lines 126-129
MergeLocalGlobalForward(inplanes, planes, local_context, global_context) ==
    BatchNormApply(Conv2dApply(Cat(<<local_context, global_context>>), inplanes, planes, 3, 1, 1, 1),
                   planes)

out_size_local_context  == 512
out_size_global_context == 512
HeadBins == 9

\* lines 139-142: local block, then global block, then merge
PyConvHeadInit(inplanes, planes) ==
    LET l == LocalPyConvBlockInit(inplanes, out_size_local_context, 4)
        g == GlobalPyConvBlockInit(inplanes, out_size_global_context)
    IN  IF l.outcome # "ok" THEN [outcome |-> l.outcome, created |-> 0]
        ELSE IF g.outcome # "ok" THEN [outcome |-> g.outcome, created |-> 1]
        ELSE [outcome |-> "ok", created |-> 3]

HeadLocal(inplanes, x) == LocalPyConvBlockForward(inplanes, out_size_local_context, 4, x)

HeadGlobal(inplanes, x) ==
    GlobalPyConvBlockForward(inplanes, out_size_global_context, HeadBins, x)

\* lines 144-146
PyConvHeadForward(inplanes, planes, x) ==
    MergeLocalGlobalForward(out_size_local_context + out_size_global_context, planes,
                            HeadLocal(inplanes, x), HeadGlobal(inplanes, x))

----------------------------------------------------------------------------
(* The backbone provider build_backbone_layers (model/build_backbone_layers.py) *)

\* a stride-2 stage with same-padding
Halve(d) == (d - 1) \div 2 + 1

\* channel count after stage i
BackboneChannels(i) ==
    CASE i = 0 -> 64 [] i = 1 -> 256 [] i = 2 -> 512 [] i = 3 -> 1024 [] OTHER -> 2048

\* extent after stage i: the stem halves twice, stage 2 halves, stages 3 and 4
\* halve only when the output stride asks for it (they are dilated otherwise)
BackboneDim(i, output_stride, d) ==
    CASE i = 0 -> Halve(Halve(d))
      [] i = 2 -> Halve(d)
      [] i = 3 -> IF output_stride >= 16 THEN Halve(d) ELSE d
      [] i = 4 -> IF output_stride >= 32 THEN Halve(d) ELSE d
      [] OTHER -> d

BackboneStage(i, output_stride, x) ==
    IF ~x.ok THEN Bad
    ELSE Tensor(BackboneChannels(i), BackboneDim(i, output_stride, x.h),
                BackboneDim(i, output_stride, x.w))

----------------------------------------------------------------------------
(* PyConvSegNet *)

backbone_output_maps == 2048
out_merge_all == 256

\* lines 154-156
CtorArgsOkNoZoomCheck(c) == c.layers \in {50, 101, 152, 200} /\ c.classes > 1

CtorArgsOk(c) ==
    /\ c.layers \in {50, 101, 152, 200}
    /\ c.classes > 1
    /\ c.zoom_factor \in {1, 2, 4, 8}

\* lines 153-179: the asserts, then the backbone provider, then head, aux, cls.
\* `created` counts the sublayers assigned: 5 backbone stages, pyconvhead, aux, cls
PyConvSegNetInit(c) ==
    IF ~CtorArgsOk(c)
    THEN [outcome |-> "AssertionError", created |-> 0, backboneCalls |-> 0]
    ELSE LET hd == PyConvHeadInit(backbone_output_maps, out_merge_all)
         IN  IF hd.outcome # "ok"
             THEN [outcome |-> hd.outcome, created |-> 5, backboneCalls |-> 1]
             ELSE [outcome |-> "ok", created |-> 8, backboneCalls |-> 1]

\* line 183
InputSizeOkHeightOnly(x) == (x.h - 1) % 8 = 0

InputSizeOk(x) == (x.h - 1) % 8 = 0 /\ (x.w - 1) % 8 = 0

\* lines 184-185: int((dim - 1) / 8 * zoom_factor + 1).  The float quotient by 8
\* and its product with 1, 2, 4 or 8 are exact, and int() truncates.
TargetDimNoPlusOne(dim, zoom_factor) == ((dim - 1) * zoom_factor) \div 8

TargetDim(dim, zoom_factor) == ((dim - 1) * zoom_factor) \div 8 + 1

\* line 200
TrainingBranchAlways(a) == TRUE

TrainingBranch(a) == a.training

\* the criterion (nn.CrossEntropyLoss): raises without a target or when the
\* target's spatial size differs from the logits'
CriterionOk(logits, y) == logits.ok /\ y.given /\ y.h = logits.h /\ y.w = logits.w

NoLabel == [given |-> FALSE, h |-> 0, w |-> 0]
Label(h, w) == [given |-> TRUE, h |-> h, w |-> w]

NoRet == [kind |-> "none", out |-> Bad]

\* the frame of a forward call: where it stands and what it has assigned
Frame(x, y) ==
    [outcome |-> "running", trace |-> <<>>, x |-> x, y |-> y, h |-> 0, w |-> 0,
     out_stage3 |-> Bad, stage4 |-> Bad, logits |-> Bad, aux |-> Bad,
     main_loss |-> "unassigned", aux_loss |-> "unassigned", ret |-> NoRet]

Raise(e, err) == [e EXCEPT !.outcome = err]

\* lines 182-185
StepValidate(c, e) ==
    IF ~InputSizeOk(e.x) THEN Raise(e, "AssertionError")
    ELSE [e EXCEPT !.h = TargetDim(e.x.h, c.zoom_factor),
                   !.w = TargetDim(e.x.w, c.zoom_factor)]

\* lines 187-191
StepBackbone(c, e) ==
    IF e.outcome # "running" THEN e
    ELSE LET s0 == BackboneStage(0, c.backbone_output_stride, e.x)
             s1 == BackboneStage(1, c.backbone_output_stride, s0)
             s2 == BackboneStage(2, c.backbone_output_stride, s1)
             s3 == BackboneStage(3, c.backbone_output_stride, s2)
             s4 == BackboneStage(4, c.backbone_output_stride, s3)
         IN  [e EXCEPT !.trace = @ \o <<"layer0", "layer1", "layer2", "layer3", "layer4">>,
                       !.out_stage3 = s3, !.stage4 = s4, !.logits = s4]

\* line 193
StepHead(c, e) ==
    IF e.outcome # "running" THEN e
    ELSE LET o == PyConvHeadForward(backbone_output_maps, out_merge_all, e.logits)
             f == [e EXCEPT !.trace = Append(@, "pyconvhead"), !.logits = o]
         IN  IF o.ok THEN f ELSE Raise(f, "RuntimeError")

\* line 195: Dropout2d, Conv2d(out_merge_all, classes, kernel_size=1)
StepCls(c, e) ==
    IF e.outcome # "running" THEN e
    ELSE LET o == Conv2dApply(e.logits, out_merge_all, c.classes, 1, 1, 0, 1)
             f == [e EXCEPT !.trace = Append(@, "cls"), !.logits = o]
         IN  IF o.ok THEN f ELSE Raise(f, "RuntimeError")

\* lines 197-198
StepZoom(c, e) ==
    IF e.outcome # "running" \/ c.zoom_factor = 1 THEN e
    ELSE [e EXCEPT !.trace = Append(@, "interpolate(x)"),
                   !.logits = Interpolate(e.logits, e.h, e.w)]

\* line 201
StepMainLoss(c, e) ==
    IF e.outcome # "running" THEN e
    ELSE LET f == [e EXCEPT !.trace = Append(@, "criterion(x)")]
         IN  IF CriterionOk(e.logits, e.y) THEN [f EXCEPT !.main_loss = "loss"]
             ELSE Raise(f, "CriterionError")

\* lines 168-174 applied at line 204
AuxApply(c, x) ==
    Conv2dApply(BatchNormApply(Conv2dApply(x, 1024, 256, 3, 1, 1, 1), 256),
                256, c.classes, 1, 1, 0, 1)

\* lines 203-209
StepAuxLoss(c, a, e) ==
    IF e.outcome # "running" THEN e
    ELSE IF a.merge_with_stages = "unset" THEN Raise(e, "AttributeError")
    ELSE IF a.merge_with_stages = "true" THEN [e EXCEPT !.aux_loss = "zero"]
    ELSE LET f == [e EXCEPT !.trace = Append(@, "aux"), !.aux = AuxApply(c, e.out_stage3)]
         IN  IF ~f.aux.ok THEN Raise(f, "RuntimeError")
             ELSE IF c.zoom_factor = 1 THEN f
             ELSE LET g == [f EXCEPT !.trace = @ \o <<"interpolate(aux)", "criterion(aux)">>,
                                     !.aux = Interpolate(f.aux, f.h, f.w)]
                  IN  IF CriterionOk(g.aux, g.y) THEN [g EXCEPT !.aux_loss = "loss"]
                      ELSE Raise(g, "CriterionError")

\* line 211: x.max(1)[1] is evaluated, then main_loss, then aux_loss
StepReturnTriple(c, e) ==
    IF e.outcome # "running" THEN e
    ELSE LET f == [e EXCEPT !.trace = Append(@, "argmax")]
         IN  IF f.aux_loss = "unassigned" THEN Raise(f, "UnboundLocalError")
             ELSE [f EXCEPT !.outcome = "returned",
                            !.ret = [kind |-> "triple", out |-> f.logits]]

\* line 214
StepReturnLogits(c, e) ==
    IF e.outcome # "running" THEN e
    ELSE [e EXCEPT !.outcome = "returned", !.ret = [kind |-> "logits", out |-> e.logits]]

\* lines 181-214
PyConvSegNetForward(c, a, x, y) ==
    LET e == StepZoom(c, StepCls(c, StepHead(c, StepBackbone(c, StepValidate(c, Frame(x, y))))))
    IN  IF TrainingBranch(a)
        THEN StepReturnTriple(c, StepAuxLoss(c, a, StepMainLoss(c, e)))
        ELSE StepReturnLogits(c, e)

----------------------------------------------------------------------------
(* The state machine: one module is constructed, configured and called *)

SeqsUpTo(S, n) == UNION {[1..k -> S] : k \in 0..n}

\* `fwd` records one call: forward is a function of the configuration and the
\* attributes, so the module is called once per setting of them
NoCall == [called |-> FALSE]

Init ==
    /\ kind = "none"
    /\ cfg = [none |-> TRUE]
    /\ ctor = [outcome |-> "none", created |-> 0, backboneCalls |-> 0]
    /\ attrs = [training |-> TRUE, merge_with_stages |-> "unset"]
    /\ fwd = NoCall

Built(k) == kind = k /\ ctor.outcome = "ok"

\* PyConv2d(in_channels, out_channels, pyconv_kernels, pyconv_groups, stride, dilation)
NewPyConv2d ==
    /\ kind = "none"
    /\ \E ic \in {4, 6}, oc \in SeqsUpTo({4, 6}, MaxLevels), ks \in SeqsUpTo({2, 3, 5}, MaxLevels),
          gs \in SeqsUpTo({1, 4}, MaxLevels), st \in {1, 2}, dl \in {1, 2} :
          LET c == [in_channels |-> ic, out_channels |-> oc, pyconv_kernels |-> ks,
                    pyconv_groups |-> gs, stride |-> st, dilation |-> dl]
              r == PyConv2dInit(c)
          IN  /\ kind' = "PyConv2d"
              /\ cfg' = c
              /\ ctor' = [outcome |-> r.outcome, created |-> r.created, backboneCalls |-> 0]
    /\ UNCHANGED <<attrs, fwd>>

\* PyConv2d.forward(x)
CallPyConv2d ==
    /\ Built("PyConv2d")
    /\ ~fwd.called
    /\ \E c \in {4, 6}, h \in 1..MaxSide, w \in 1..MaxSide :
          LET x == Tensor(c, h, w)
              o == PyConv2dForward(cfg, x)
          IN  fwd' = [called |-> TRUE, x |-> x, levels |-> LevelOutputs(cfg, x), out |-> o,
                      outcome |-> IF o.ok THEN "returned" ELSE "RuntimeError"]
    /\ UNCHANGED <<kind, cfg, ctor, attrs>>

\* PyConv4(inplans, planes, pyconv_kernels, stride, pyconv_groups)
NewPyConv4 ==
    /\ kind = "none"
    /\ \E ip \in {8, 16}, pl \in 4..MaxPlanes, ks \in {DefaultKernels, <<3, 5, 7, 8>>},
          st \in {1, 2}, gs \in {DefaultGroups, <<1, 1, 1, 1>>, <<1, 2, 4, 8>>} :
          LET r == PyConv4Init(ip, pl, gs)
          IN  /\ kind' = "PyConv4"
              /\ cfg' = [inplans |-> ip, planes |-> pl, pyconv_kernels |-> ks, stride |-> st,
                         pyconv_groups |-> gs]
              /\ ctor' = [outcome |-> r.outcome, created |-> r.created, backboneCalls |-> 0]
    /\ UNCHANGED <<attrs, fwd>>

\* PyConv4.forward(x)
CallPyConv4 ==
    /\ Built("PyConv4")
    /\ ~fwd.called
    /\ \E c \in {8, 16}, h \in 1..MaxSide, w \in 1..MaxSide :
          LET x == Tensor(c, h, w)
              o == PyConv4Forward(cfg.inplans, cfg.planes, cfg.pyconv_kernels, cfg.stride, x)
          IN  fwd' = [called |-> TRUE, x |-> x,
                      levels |-> Conv2_Outputs(cfg.inplans, cfg.planes, cfg.pyconv_kernels,
                                               cfg.stride, x),
                      out |-> o, outcome |-> IF o.ok THEN "returned" ELSE "RuntimeError"]
    /\ UNCHANGED <<kind, cfg, ctor, attrs>>

\* GlobalPyConvBlock(in_dim, reduction_dim, bins, BatchNorm)
NewGlobalPyConvBlock ==
    /\ kind = "none"
    /\ \E id \in {8, 16}, rd \in {64, 66, 128}, b \in {1, 9} :
          LET r == GlobalPyConvBlockInit(id, rd)
          IN  /\ kind' = "GlobalPyConvBlock"
              /\ cfg' = [in_dim |-> id, reduction_dim |-> rd, bins |-> b]
              /\ ctor' = [outcome |-> r.outcome, created |-> r.created, backboneCalls |-> 0]
    /\ UNCHANGED <<attrs, fwd>>

\* GlobalPyConvBlock.forward(x)
CallGlobalPyConvBlock ==
    /\ Built("GlobalPyConvBlock")
    /\ ~fwd.called
    /\ \E c \in {8, 16}, h \in 1..MaxSide, w \in 1..MaxSide :
          LET x == Tensor(c, h, w)
              o == GlobalPyConvBlockForward(cfg.in_dim, cfg.reduction_dim, cfg.bins, x)
          IN  fwd' = [called |-> TRUE, x |-> x, out |-> o,
                      outcome |-> IF o.ok THEN "returned" ELSE "RuntimeError"]
    /\ UNCHANGED <<kind, cfg, ctor, attrs>>

\* PyConvHead(inplanes, planes, BatchNorm)
NewPyConvHead ==
    /\ kind = "none"
    /\ \E ip \in {100, 256, 2048}, pl \in {16, 256} :
          LET r == PyConvHeadInit(ip, pl)
          IN  /\ kind' = "PyConvHead"
              /\ cfg' = [inplanes |-> ip, planes |-> pl]
              /\ ctor' = [outcome |-> r.outcome, created |-> r.created, backboneCalls |-> 0]
    /\ UNCHANGED <<attrs, fwd>>

\* PyConvHead.forward(x)
CallPyConvHead ==
    /\ Built("PyConvHead")
    /\ ~fwd.called
    /\ \E c \in {256, 2048}, h \in 1..MaxSide, w \in 1..MaxSide :
          LET x == Tensor(c, h, w)
              o == PyConvHeadForward(cfg.inplanes, cfg.planes, x)
          IN  fwd' = [called |-> TRUE, x |-> x, local |-> HeadLocal(cfg.inplanes, x),
                      global |-> HeadGlobal(cfg.inplanes, x), out |-> o,
                      outcome |-> IF o.ok THEN "returned" ELSE "RuntimeError"]
    /\ UNCHANGED <<kind, cfg, ctor, attrs>>

\* PyConvSegNet(layers, classes, zoom_factor, backbone_output_stride)
NewPyConvSegNet ==
    /\ kind = "none"
    /\ \E ly \in {34, 50}, cl \in {1, 2, 3}, z \in {1, 2, 3, 4, 8}, os \in {8, 16} :
          LET c == [layers |-> ly, classes |-> cl, zoom_factor |-> z,
                    backbone_output_stride |-> os]
          IN  /\ kind' = "PyConvSegNet"
              /\ cfg' = c
              /\ ctor' = PyConvSegNetInit(c)
    /\ UNCHANGED <<attrs, fwd>>

\* model.train()
Train ==
    /\ Built("PyConvSegNet")
    /\ ~attrs.training
    /\ attrs' = [attrs EXCEPT !.training = TRUE]
    /\ fwd' = NoCall
    /\ UNCHANGED <<kind, cfg, ctor>>

\* model.eval()
Eval ==
    /\ Built("PyConvSegNet")
    /\ attrs.training
    /\ attrs' = [attrs EXCEPT !.training = FALSE]
    /\ fwd' = NoCall
    /\ UNCHANGED <<kind, cfg, ctor>>

\* model.merge_with_stages = b, the only way the attribute read at line 203 exists
SetMergeWithStages ==
    /\ Built("PyConvSegNet")
    /\ \E b \in {"true", "false"} :
          /\ attrs.merge_with_stages # b
          /\ attrs' = [attrs EXCEPT !.merge_with_stages = b]
    /\ fwd' = NoCall
    /\ UNCHANGED <<kind, cfg, ctor>>

\* the sizes of label map a caller may pass for an image of size (h, w)
LabelChoices(c, h, w) ==
    LET s == StepBackbone(c, Frame(Tensor(3, h, w), NoLabel)).stage4
    IN  {NoLabel, Label(h, w), Label(s.h, s.w),
         Label(TargetDim(h, c.zoom_factor), TargetDim(w, c.zoom_factor))}

\* PyConvSegNet.forward(x, y)
CallPyConvSegNet ==
    /\ Built("PyConvSegNet")
    /\ ~fwd.called
    /\ \E h \in 1..MaxDim, w \in 1..MaxDim :
          \E y \in LabelChoices(cfg, h, w) :
              fwd' = [called |-> TRUE, frame |-> PyConvSegNetForward(cfg, attrs, Tensor(3, h, w), y)]
    /\ UNCHANGED <<kind, cfg, ctor, attrs>>

Next ==
    \/ NewPyConv2d
    \/ CallPyConv2d
    \/ NewPyConv4
    \/ CallPyConv4
    \/ NewGlobalPyConvBlock
    \/ CallGlobalPyConvBlock
    \/ NewPyConvHead
    \/ CallPyConvHead
    \/ NewPyConvSegNet
    \/ Train
    \/ Eval
    \/ SetMergeWithStages
    \/ CallPyConvSegNet

Spec == Init /\ [][Next]_vars

----------------------------------------------------------------------------
(* Properties *)

InTrace(step) == \E i \in 1..Len(fwd.frame.trace) : fwd.frame.trace[i] = step

NetCalled == kind = "PyConvSegNet" /\ fwd.called

SizeValid(x) == (x.h - 1) % 8 = 0 /\ (x.w - 1) % 8 = 0

\* C1: a forward call of PyConvSegNet on an input whose height or width does not
\* satisfy (dim - 1) mod 8 = 0 ends in the assertion failure with no backbone
\* stage, head, classifier or criterion executed and nothing returned.
C1_InvalidSizeFailsFirst ==
    (NetCalled /\ ~SizeValid(fwd.frame.x))
        => /\ fwd.frame.outcome = "AssertionError"
           /\ fwd.frame.trace = <<>>
           /\ fwd.frame.ret.kind = "none"

\* C1 witness: the height passes the check and the width does not
C1_Witness ==
    /\ NetCalled
    /\ fwd.frame.x.h = 9 /\ fwd.frame.x.w = 10
    /\ fwd.frame.outcome = "AssertionError"

\* C2: in training mode, forward(x, y) on an input of valid size with a label map
\* of the size of the logits returns the triple, the prediction map having the
\* target size and its entries ranging over the `classes` channels.
C2_TrainingForwardReturnsTriple ==
    (/\ NetCalled
     /\ attrs.training
     /\ SizeValid(fwd.frame.x)
     /\ fwd.frame.y.given /\ fwd.frame.y.h = fwd.frame.logits.h /\ fwd.frame.y.w = fwd.frame.logits.w)
        => /\ fwd.frame.outcome = "returned"
           /\ fwd.frame.ret.kind = "triple"
           /\ fwd.frame.ret.out.c = cfg.classes
           /\ fwd.frame.ret.out.h = fwd.frame.y.h /\ fwd.frame.ret.out.w = fwd.frame.y.w

\* C3: in inference mode, on an input (H, W) of valid size, forward returns
\* `classes` channels of spatial size ((H-1)/8 * zoom_factor + 1, (W-1)/8 *
\* zoom_factor + 1) for zoom_factor 2, 4, 8 (so (H, W) for 8), and for
\* zoom_factor 1 the size of the backbone's last stage, with no upsample step.
C3_InferenceOutputSize ==
    (NetCalled /\ ~attrs.training /\ SizeValid(fwd.frame.x))
        => /\ fwd.frame.outcome = "returned"
           /\ fwd.frame.ret.out.ok
           /\ fwd.frame.ret.out.c = cfg.classes
           /\ IF cfg.zoom_factor = 1
              THEN /\ fwd.frame.ret.out.h = fwd.frame.stage4.h
                   /\ fwd.frame.ret.out.w = fwd.frame.stage4.w
                   /\ ~InTrace("interpolate(x)")
              ELSE /\ fwd.frame.ret.out.h = ((fwd.frame.x.h - 1) \div 8) * cfg.zoom_factor + 1
                   /\ fwd.frame.ret.out.w = ((fwd.frame.x.w - 1) \div 8) * cfg.zoom_factor + 1
                   /\ InTrace("interpolate(x)")
           /\ cfg.zoom_factor = 8
                => fwd.frame.ret.out.h = fwd.frame.x.h /\ fwd.frame.ret.out.w = fwd.frame.x.w

\* C3 witness: zoom_factor 4 on a 17 x 9 image gives 9 x 5 logits
C3_Witness ==
    /\ NetCalled /\ ~attrs.training
    /\ cfg.zoom_factor = 4
    /\ fwd.frame.x.h = 17 /\ fwd.frame.x.w = 9
    /\ fwd.frame.outcome = "returned"
    /\ fwd.frame.ret.out = Tensor(cfg.classes, 9, 5)

\* C4: an inference-mode call never invokes the criterion, the auxiliary head
\* or the argmax, assigns no loss, and what it returns is the logits tensor.
C4_InferenceRunsNoLoss ==
    (NetCalled /\ ~attrs.training)
        => /\ ~InTrace("criterion(x)") /\ ~InTrace("criterion(aux)")
           /\ ~InTrace("aux") /\ ~InTrace("interpolate(aux)")
           /\ ~InTrace("argmax")
           /\ fwd.frame.main_loss = "unassigned" /\ fwd.frame.aux_loss = "unassigned"
           /\ fwd.frame.outcome = "returned"
                => fwd.frame.ret = [kind |-> "logits", out |-> fwd.frame.logits]

\* C4 witness: an inference call that was handed a label map and returned
C4_Witness ==
    /\ NetCalled /\ ~attrs.training
    /\ fwd.frame.y.given
    /\ fwd.frame.outcome = "returned"
    /\ InTrace("cls")

\* C5: a PyConv4 that was constructed yields, when its forward returns, exactly
\* `planes` channels.
C5_PyConv4ChannelsEqualPlanes ==
    (kind = "PyConv4" /\ ctor.outcome = "ok" /\ fwd.called /\ fwd.outcome = "returned")
        => fwd.out.c = cfg.planes

\* C6: constructing PyConv2d with lists that are not all of one length ends in
\* the assertion failure with no pyramid level created, and the object is never
\* called.
C6_MismatchedListsFailFast ==
    (/\ kind = "PyConv2d"
     /\ ~(/\ Len(cfg.out_channels) = Len(cfg.pyconv_kernels)
          /\ Len(cfg.pyconv_kernels) = Len(cfg.pyconv_groups)))
        => /\ ctor.outcome = "AssertionError"
           /\ ctor.created = 0
           /\ ~fwd.called

\* C6 witness: out_channels and pyconv_kernels agree, pyconv_groups is shorter
C6_Witness ==
    /\ kind = "PyConv2d"
    /\ Len(cfg.out_channels) = 2 /\ Len(cfg.pyconv_kernels) = 2 /\ Len(cfg.pyconv_groups) = 1
    /\ ctor.outcome = "AssertionError"

RECURSIVE SumSeq(_, _)
SumSeq(q, i) == IF i > Len(q) THEN 0 ELSE q[i] + SumSeq(q, i + 1)

\* a constructed PyConv2d or PyConv4 with at least one level, stride 1 and
\* dilation 1, called on a tensor with the channel count it was built for
PyramidCalled ==
    \/ /\ kind = "PyConv2d" /\ ctor.outcome = "ok" /\ fwd.called
       /\ Len(cfg.pyconv_kernels) >= 1
       /\ cfg.stride = 1 /\ cfg.dilation = 1
       /\ fwd.x.c = cfg.in_channels
    \/ /\ kind = "PyConv4" /\ ctor.outcome = "ok" /\ fwd.called
       /\ cfg.stride = 1
       /\ fwd.x.c = cfg.inplans

PyramidChannels ==
    IF kind = "PyConv2d" THEN SumSeq(cfg.out_channels, 1) ELSE 4 * (cfg.planes \div 4)

PyramidShapeKept ==
    /\ fwd.outcome = "returned"
    /\ \A i \in 1..Len(fwd.levels) :
          fwd.levels[i].ok /\ fwd.levels[i].h = fwd.x.h /\ fwd.levels[i].w = fwd.x.w
    /\ fwd.out = Tensor(PyramidChannels, fwd.x.h, fwd.x.w)

AllKernelsOdd == \A i \in 1..Len(cfg.pyconv_kernels) : cfg.pyconv_kernels[i] % 2 = 1

\* C7 as stated: every constructed PyConv2d / PyConv4 with stride 1 and dilation 1
\* keeps the input's height and width at every level and outputs the sum of the
\* per-level channel counts.
C7_ShapeKeptAnyKernel == PyramidCalled => PyramidShapeKept

\* C7 amended: the same, for configurations all of whose kernel sizes are odd.
C7_ShapeKeptOddKernels == (PyramidCalled /\ AllKernelsOdd) => PyramidShapeKept

\* C7 witness: a two-level PyConv2d with kernels 3 and 5 on a 2 x 3 tensor
C7_Witness ==
    /\ PyramidCalled /\ kind = "PyConv2d"
    /\ cfg.pyconv_kernels = <<3, 5>>
    /\ cfg.out_channels = <<4, 6>>
    /\ fwd.x.h = 2 /\ fwd.x.w = 3
    /\ fwd.out = Tensor(10, 2, 3)

\* C8: GlobalPyConvBlock returns reduction_dim channels at the input's spatial
\* size; inside PyConvHead.forward the local and global tensors have the same
\* spatial size and the head's output keeps the input's.
C8_GlobalKeepsSpatialSize ==
    /\ (kind = "GlobalPyConvBlock" /\ ctor.outcome = "ok" /\ fwd.called
        /\ fwd.x.c = cfg.in_dim)
          => fwd.out = Tensor(cfg.reduction_dim, fwd.x.h, fwd.x.w)
    /\ (kind = "PyConvHead" /\ ctor.outcome = "ok" /\ fwd.called /\ fwd.x.c = cfg.inplanes)
          => /\ fwd.global = Tensor(512, fwd.x.h, fwd.x.w)
             /\ fwd.local.ok
             /\ fwd.local.h = fwd.global.h /\ fwd.local.w = fwd.global.w
             /\ fwd.out = Tensor(cfg.planes, fwd.x.h, fwd.x.w)

\* C8 witness: the head of the network (2048 -> 256) on a 2 x 3 feature map
C8_Witness ==
    /\ kind = "PyConvHead" /\ fwd.called
    /\ cfg.inplanes = 2048 /\ cfg.planes = 256
    /\ fwd.x = Tensor(2048, 2, 3)
    /\ fwd.out.ok

\* C9: constructing PyConvSegNet with a depth outside {50,101,152,200}, classes
\* not above 1 or a zoom factor outside {1,2,4,8} ends in the assertion failure
\* with the backbone provider not called and no sublayer created.
C9_BadArgsFailBeforeBackbone ==
    (/\ kind = "PyConvSegNet"
     /\ \/ cfg.layers \notin {50, 101, 152, 200}
        \/ cfg.classes <= 1
        \/ cfg.zoom_factor \notin {1, 2, 4, 8})
        => /\ ctor.outcome = "AssertionError"
           /\ ctor.backboneCalls = 0
           /\ ctor.created = 0
           /\ ~fwd.called

\* C9 witness: only the zoom factor is out of range
C9_Witness ==
    /\ kind = "PyConvSegNet"
    /\ cfg.layers = 50 /\ cfg.classes = 2 /\ cfg.zoom_factor = 3
    /\ ctor.outcome = "AssertionError"

\* C10: in training mode with merge_with_stages false, once the main loss is
\* computed the call returns with aux_loss assigned from the criterion on the
\* auxiliary head's output, upsampled exactly when the main logits were.
C10_AuxLossAlwaysAssigned ==
    (/\ NetCalled
     /\ attrs.training
     /\ attrs.merge_with_stages = "false"
     /\ fwd.frame.main_loss = "loss")
        => /\ InTrace("aux")
           /\ InTrace("interpolate(aux)") <=> InTrace("interpolate(x)")
           /\ fwd.frame.aux_loss = "loss"
           /\ fwd.frame.outcome = "returned"

=============================================================================
